---- MODULE Spec2Model ----
(***************************************************************************)
(* Model of src/etl.py: a run-to-completion job that reads nine variables  *)
(* from the process environment, reads one worksheet of a spreadsheet into *)
(* a DataFrame and writes the DataFrame to one PostgreSQL table with       *)
(* DataFrame.to_sql(if_exists="replace", chunksize=1000, method="multi").  *)
(*                                                                         *)
(* The process environment, the worksheet and the table are state outside  *)
(* the process.  Every call into gspread, google-auth, SQLAlchemy or the   *)
(* database either returns or raises; which of the two is not decided by   *)
(* the code of etl.py, so it is a nondeterministic choice here.  No        *)
(* exception is caught in etl.py except the ValueError of int() (line 124),*)
(* which is re-raised as a RuntimeError.                                   *)
(***************************************************************************)
EXTENDS Integers, Sequences, FiniteSets, TLC

\* ------------------------------------------------------------------ bounds

\* Data rows of the worksheet (below the header row).
MaxRows == 2
\* Environment variables that are unset, empty or otherwise unusable.
MaxBadVars == 2
\* Invocations of the job, one after the other.
MaxRuns == 2
\* Batch sizes tried when load_dataframe is exercised on its own.
MaxChunk == 3

\* ------------------------------------------------------- small utilities

Range(s) == {s[i] : i \in 1..Len(s)}

Min(a, b) == IF a < b THEN a ELSE b

RECURSIVE Count(_, _)
\* How many times row r occurs in the sequence s.
Count(r, s) ==
    IF s = <<>> THEN 0
    ELSE (IF s[1] = r THEN 1 ELSE 0) + Count(r, Tail(s))

\* The two sequences hold the same rows the same number of times.
SameRows(a, b) ==
    /\ Len(a) = Len(b)
    /\ \A r \in Range(a) \cup Range(b) : Count(r, a) = Count(r, b)

\* Optional[str]: None is <<>>, a string s is <<s>>.
None == <<>>

\* ------------------------------------------------- the process environment

\* The order in which main() reads the variables.
EnvOrder ==
    << "SHEET_ID", "WORKSHEET", "GOOGLE_SA_KEY_JSON", "PG_USER", "PG_PASSWORD",
       "PG_HOST", "PG_PORT", "PG_DB", "PG_TABLE" >>

EnvKeys == Range(EnvOrder)

\* A usable service-account key, valid JSON that is no service-account key,
\* and text that is not JSON at all.
SaKey == "{\"type\":\"service_account\"}"
JsonNotAKey == "{}"
NotJson == "{not json"

GoodValue(key) == IF key = "GOOGLE_SA_KEY_JSON" THEN SaKey ELSE "x"

EnvValues(key) ==
    IF key = "GOOGLE_SA_KEY_JSON"
    THEN {"", NotJson, JsonNotAKey, SaKey}
    ELSE {"", "x"}

\* os.environ: a mapping whose domain is the set of variables that are set.
\* c chooses for every variable None (unset) or a value.
EnvironOf(c) == [k \in {x \in EnvKeys : c[x] # None} |-> c[k][1]]

IsBad(c, k) == c[k] # <<GoodValue(k)>>

OptValues(key) == {None} \cup { <<v>> : v \in EnvValues(key) }

EnvChoices ==
    { [k \in EnvKeys |-> IF k = "GOOGLE_SA_KEY_JSON" THEN j ELSE o[k]] :
        o \in [EnvKeys \ {"GOOGLE_SA_KEY_JSON"} -> OptValues("PG_USER")],
        j \in OptValues("GOOGLE_SA_KEY_JSON") }

Environments ==
    { EnvironOf(c) : c \in
        { c \in EnvChoices :
            Cardinality({k \in EnvKeys : IsBad(c, k)}) <= MaxBadVars } }

\* ------------------------------------------------------------ the worksheet

Header == << "id", "name" >>

\* The text of a cell.
Cells == {"1", "a"}

\* A worksheet: a header row and data rows, or nothing at all.
BlankSheet == [header |-> <<>>, rows |-> <<>>]

Sheets ==
    {BlankSheet} \cup
    UNION { [header : {Header}, rows : [1..n -> [1..Len(Header) -> Cells]]] : n \in 0..MaxRows }

\* ---------------------------------------------------------------- the table

Absent == [exists |-> FALSE, schema |-> {}, rows |-> <<>>]

\* A value of a DataFrame cell: an int or a str.
IntValue(n) == [kind |-> "int", int |-> n, str |-> ""]
StrValue(s) == [kind |-> "str", int |-> 0, str |-> s]

\* What the table may hold before the first run.
InitialTables ==
    { Absent,
      [exists |-> TRUE, schema |-> {<<"old", "TEXT">>},
       rows |-> << [old |-> StrValue("z")] >>],
      [exists |-> TRUE, schema |-> {<<"id", "BIGINT">>, <<"name", "TEXT">>},
       rows |-> << [id |-> IntValue(7), name |-> StrValue("old")] >>] }

\* ------------------------------------------------------------------- state

VARIABLES
    environ,       \* os.environ of the process
    sheet,         \* the worksheet WORKSHEET of the spreadsheet SHEET_ID
    table,         \* the table PG_TABLE of the database
    pc,            \* where the run stands
    cfg,           \* main(): the values env() has returned so far, in EnvOrder
    pg_chunksize,  \* main(): Optional[int], <<>> for None
    df,            \* main(): the DataFrame, a sequence of records
    engine,        \* main(): the Engine (its URL), <<>> before get_engine
    sent,          \* to_sql: rows handed to the database so far
    conn,          \* to_sql: a database connection is held
    calls,         \* how often each library call was made in this run
    returned,      \* the steps of main() that have returned in this run
    error,         \* the exception that ended the run
    runs,          \* invocations of the job so far
    table0         \* the table as it was when this run started

vars ==
    << environ, sheet, table, pc, cfg, pg_chunksize, df, engine, sent, conn,
       calls, returned, error, runs, table0 >>

\* The calls into the libraries, in the order the code makes them.
StepOrder ==
    << "json_loads", "from_service_account_info", "authorize", "open_by_key",
       "worksheet", "get_all_records", "create_engine", "connect", "drop",
       "create", "insert", "commit" >>

Steps == Range(StepOrder)

\* The calls that go over the network to the spreadsheet service.
SheetSteps == {"authorize", "open_by_key", "worksheet", "get_all_records"}

\* The calls that go over the network to the database.
DbSteps == {"connect", "drop", "create", "insert", "commit"}

NoCalls == [s \in Steps |-> 0]

NoError == [kind |-> "", key |-> "", at |-> ""]

\* ----------------------------------------------------------- config helpers

\* os.getenv(key, default)
getenv(key, default) == IF key \in DOMAIN environ THEN <<environ[key]>> ELSE default

\* Faulty variant of env: os.getenv(key, "") and no check, so an unset
\* variable reads as the empty string.
envDefaultEmpty(key) ==
    LET val == getenv(key, <<"">>)
    IN  [raises |-> FALSE, val |-> val[1]]

\* env(key): the value, or the RuntimeError naming the key.
env(key) ==
    LET val == getenv(key, None)
    IN  IF val = None
        THEN [raises |-> TRUE, val |-> ""]
        ELSE [raises |-> FALSE, val |-> val[1]]

build_pg_url(user, password, host, port, db) ==
    << "postgresql://", user, ":", password, "@", host, ":", port, "/", db >>

\* Faulty variant of pg_if_exists: rows are appended to an existing table.
pg_if_exists_append == "append"

pg_if_exists == "replace"

pg_chunksize_str == << "1", "0", "0", "0" >>

DigitValue ==
    ("0" :> 0) @@ ("1" :> 1) @@ ("2" :> 2) @@ ("3" :> 3) @@ ("4" :> 4) @@
    ("5" :> 5) @@ ("6" :> 6) @@ ("7" :> 7) @@ ("8" :> 8) @@ ("9" :> 9)

RECURSIVE DecimalValue(_)
DecimalValue(chars) ==
    IF chars = <<>> THEN 0
    ELSE 10 * DecimalValue(SubSeq(chars, 1, Len(chars) - 1)) + DigitValue[chars[Len(chars)]]

\* int(s) raises ValueError unless s is a decimal numeral.
IntRaises(chars) == chars = <<>> \/ \E i \in 1..Len(chars) : chars[i] \notin DOMAIN DigitValue

\* Faulty variant of Raise: the exception is caught and the call tried again.
RaiseRetry(kind, key) ==
    /\ pc' = pc
    /\ error' = [kind |-> kind, key |-> key, at |-> pc]

\* Raising: the exception leaves main() and the process ends.
Raise(kind, key) ==
    /\ pc' = "failed"
    /\ error' = [kind |-> kind, key |-> key, at |-> pc]

Called(step) == calls' = [calls EXCEPT ![step] = @ + 1]

\* ---------------------------------------------------------------- main()

\* Lines 109-118: the next env(...) call of main().
ReadEnv ==
    /\ pc = "env"
    /\ LET key == EnvOrder[Len(cfg) + 1]
           r == env(key)
       IN  IF r.raises
           THEN /\ Raise("RuntimeError", key)
                /\ UNCHANGED cfg
           ELSE /\ cfg' = Append(cfg, r.val)
                /\ pc' = IF Len(cfg) + 1 = Len(EnvOrder) THEN "chunksize" ELSE "env"
                /\ UNCHANGED error
    /\ UNCHANGED << environ, sheet, table, pg_chunksize, df, engine, sent, conn,
                    calls, returned, runs, table0 >>

\* Faulty variants of AfterConfig: the engine is made and the load begun
\* before the worksheet is read; the credential text is not parsed before
\* the spreadsheet service is contacted.
AfterConfigLoadFirst == "get_engine"

AfterConfigSkipParse == "authorize"

\* Where main() goes once the configuration is read: read_worksheet.
AfterConfig == "json_loads"

\* Lines 119-125: the batch size is parsed from a literal.
ParseChunksize ==
    /\ pc = "chunksize"
    /\ IF pg_chunksize_str = <<>>
       THEN /\ pg_chunksize' = None
            /\ pc' = AfterConfig
            /\ returned' = returned \cup {"config"}
            /\ UNCHANGED error
       ELSE IF IntRaises(pg_chunksize_str)
       THEN /\ Raise("RuntimeError", "PG_CHUNKSIZE")
            /\ UNCHANGED << pg_chunksize, returned >>
       ELSE /\ pg_chunksize' = << DecimalValue(pg_chunksize_str) >>
            /\ pc' = AfterConfig
            /\ returned' = returned \cup {"config"}
            /\ UNCHANGED error
    /\ UNCHANGED << environ, sheet, table, cfg, df, engine, sent, conn, calls,
                    runs, table0 >>

\* ------------------------------------------------------- read_worksheet()

\* json.loads(s) raises JSONDecodeError unless s is a JSON text.
json_loads_raises(s) == s \notin {JsonNotAKey, SaKey}

\* Credentials.from_service_account_info(info) raises unless info is a key.
from_service_account_info_raises(s) == s # SaKey

\* ws.get_all_records(): the first row is the header, every later row a
\* record keyed by it; a cell that reads as a number becomes that number.
numericise(cell) ==
    IF cell \in DOMAIN DigitValue THEN IntValue(DigitValue[cell]) ELSE StrValue(cell)

IndexOf(header, c) == CHOOSE j \in 1..Len(header) : header[j] = c

get_all_records(ws) ==
    [ i \in 1..Len(ws.rows) |->
        [ c \in Range(ws.header) |-> numericise(ws.rows[i][IndexOf(ws.header, c)]) ] ]

\* What stays as it is while read_worksheet runs.
ExtractFrame ==
    UNCHANGED << environ, sheet, table, cfg, pg_chunksize, engine, sent, conn,
                 runs, table0 >>

\* Line 57.
JsonLoads ==
    /\ pc = "json_loads"
    /\ Called("json_loads")
    /\ \/ /\ ~json_loads_raises(cfg[3])
          /\ pc' = "from_service_account_info"
          /\ UNCHANGED error
       \/ /\ json_loads_raises(cfg[3])
          /\ Raise("JSONDecodeError", "")
    /\ UNCHANGED << df, returned >>
    /\ ExtractFrame

\* Line 58.
FromServiceAccountInfo ==
    /\ pc = "from_service_account_info"
    /\ Called("from_service_account_info")
    /\ \/ /\ ~from_service_account_info_raises(cfg[3])
          /\ pc' = "authorize"
          /\ UNCHANGED error
       \/ /\ from_service_account_info_raises(cfg[3])
          /\ Raise("ValueError", "")
    /\ UNCHANGED << df, returned >>
    /\ ExtractFrame

\* Line 59.
Authorize ==
    /\ pc = "authorize"
    /\ Called("authorize")
    /\ \/ /\ pc' = "open_by_key"
          /\ UNCHANGED error
       \/ Raise("AuthError", "")
    /\ UNCHANGED << df, returned >>
    /\ ExtractFrame

\* Line 62.
OpenByKey ==
    /\ pc = "open_by_key"
    /\ Called("open_by_key")
    /\ \/ /\ pc' = "worksheet"
          /\ UNCHANGED error
       \/ Raise("SpreadsheetNotFound", "")
    /\ UNCHANGED << df, returned >>
    /\ ExtractFrame

\* Line 63.
OpenWorksheet ==
    /\ pc = "worksheet"
    /\ Called("worksheet")
    /\ \/ /\ pc' = "get_all_records"
          /\ UNCHANGED error
       \/ Raise("WorksheetNotFound", "")
    /\ UNCHANGED << df, returned >>
    /\ ExtractFrame

\* Where main() goes once read_worksheet has returned: get_engine.
AfterExtract == "get_engine"

\* Lines 66-74: the records become the DataFrame, which is returned.
GetAllRecords ==
    /\ pc = "get_all_records"
    /\ Called("get_all_records")
    /\ \/ /\ df' = get_all_records(sheet)
          /\ returned' = returned \cup {"read_worksheet"}
          /\ pc' = AfterExtract
          /\ UNCHANGED error
       \/ /\ Raise("APIError", "")
          /\ UNCHANGED << df, returned >>
    /\ ExtractFrame

\* -------------------------------------------------------------- get_engine()

\* Lines 77-79 and 131: create_engine opens no connection; it raises on a URL
\* it cannot parse or a driver it cannot load.
GetEngine ==
    /\ pc = "get_engine"
    /\ Called("create_engine")
    /\ \/ /\ engine' = build_pg_url(cfg[4], cfg[5], cfg[6], cfg[7], cfg[8])
          /\ returned' = returned \cup {"get_engine"}
          /\ pc' = "load_dataframe"
          /\ UNCHANGED error
       \/ /\ Raise("ArgumentError", "")
          /\ UNCHANGED << engine, returned >>
    /\ UNCHANGED << environ, sheet, table, cfg, pg_chunksize, df, sent, conn,
                    runs, table0 >>

\* ---------------------------------------------------------- load_dataframe()

\* Faulty variant of DfEmpty: the empty DataFrame is not recognised.
DfEmptyNever(d) == FALSE

\* df.empty
DfEmpty(d) == Len(d) = 0

Columns(d) == IF d = <<>> THEN {} ELSE DOMAIN d[1]

\* The column types to_sql derives from the whole DataFrame: a column of
\* ints only is BIGINT, any other column is TEXT.
InferSchema(d) ==
    { << c, IF \A i \in 1..Len(d) : d[i][c].kind = "int" THEN "BIGINT" ELSE "TEXT" >> :
        c \in Columns(d) }

SchemaColumns(schema) == { p[1] : p \in schema }

\* The rows of one batch: chunksize rows from offset start, fewer at the end;
\* chunksize None sends all rows at once.
Chunk(d, start, chunksize) ==
    LET size == IF chunksize = None THEN Len(d) ELSE chunksize[1]
    IN  SubSeq(d, start + 1, Min(start + size, Len(d)))

\* Faulty variant of MoreBatches: n \div size batches, so a last batch
\* that is not full is never sent.
MoreBatchesFloor(n, start, chunksize) ==
    LET size == IF chunksize = None THEN n ELSE chunksize[1]
    IN  /\ n > 0
        /\ start < n
        /\ (start \div size) < (n \div size)

\* The batch loop of to_sql: n \div size + 1 batches at most, and it ends
\* at the first batch that would be empty.
MoreBatches(n, start, chunksize) ==
    LET size == IF chunksize = None THEN n ELSE chunksize[1]
    IN  /\ n > 0
        /\ start < n
        /\ (start \div size) < (n \div size) + 1

\* Faulty variant of ToSqlRaise: the connection is not given back.
ToSqlRaiseLeak(kind) ==
    /\ Raise(kind, "")
    /\ conn' = conn
    /\ table' \in {table, table0}

\* An exception inside to_sql: the connection is given back on the way out;
\* what was written so far is rolled back or stays, as the database has it.
ToSqlRaise(kind) ==
    /\ Raise(kind, "")
    /\ conn' = FALSE
    /\ table' \in {table, table0}

\* What stays as it is while load_dataframe runs.
LoadFrame ==
    UNCHANGED << environ, sheet, cfg, pg_chunksize, df, engine, runs, table0 >>

\* Lines 89-96.
LoadDataframe ==
    /\ pc = "load_dataframe"
    /\ IF DfEmpty(df)
       THEN /\ pc' = "done"
            /\ returned' = returned \cup {"load_dataframe"}
       ELSE /\ pc' = "connect"
            /\ UNCHANGED returned
    /\ UNCHANGED << table, sent, conn, calls, error >>
    /\ LoadFrame

\* Lines 97-104, to_sql: a connection is taken from the engine.
ToSqlConnect ==
    /\ pc = "connect"
    /\ Called("connect")
    /\ \/ /\ conn' = TRUE
          /\ pc' = "drop"
          /\ UNCHANGED << table, error >>
       \/ ToSqlRaise("OperationalError")
    /\ UNCHANGED << sent, returned >>
    /\ LoadFrame

\* to_sql: an existing table is dropped (replace), kept (append) or an
\* error (fail).
ToSqlDrop ==
    /\ pc = "drop"
    /\ Called("drop")
    /\ \/ IF ~table.exists
          THEN /\ pc' = "create"
               /\ UNCHANGED << table, conn, error >>
          ELSE IF pg_if_exists = "replace"
          THEN /\ table' = Absent
               /\ pc' = "create"
               /\ UNCHANGED << conn, error >>
          ELSE IF pg_if_exists = "append"
          THEN /\ pc' = IF MoreBatches(Len(df), 0, pg_chunksize) THEN "insert" ELSE "commit"
               /\ UNCHANGED << table, conn, error >>
          ELSE ToSqlRaise("ValueError")
       \/ ToSqlRaise("DatabaseError")
    /\ UNCHANGED << sent, returned >>
    /\ LoadFrame

\* to_sql: the table is created with the schema of the whole DataFrame.
ToSqlCreate ==
    /\ pc = "create"
    /\ Called("create")
    /\ \/ /\ table' = [exists |-> TRUE, schema |-> InferSchema(df), rows |-> <<>>]
          /\ pc' = IF MoreBatches(Len(df), 0, pg_chunksize) THEN "insert" ELSE "commit"
          /\ UNCHANGED << conn, error >>
       \/ ToSqlRaise("DatabaseError")
    /\ UNCHANGED << sent, returned >>
    /\ LoadFrame

\* to_sql: one batch is inserted.
ToSqlInsert ==
    /\ pc = "insert"
    /\ Called("insert")
    /\ \/ LET chunk == Chunk(df, sent, pg_chunksize)
          IN  /\ SchemaColumns(table.schema) = Columns(df)
              /\ table' = [table EXCEPT !.rows = @ \o chunk]
              /\ sent' = sent + Len(chunk)
              /\ pc' = IF MoreBatches(Len(df), sent + Len(chunk), pg_chunksize)
                       THEN "insert" ELSE "commit"
              /\ UNCHANGED << conn, error >>
       \/ /\ ToSqlRaise("DatabaseError")
          /\ UNCHANGED sent
    /\ UNCHANGED returned
    /\ LoadFrame

\* to_sql: the transaction is committed and the connection given back;
\* load_dataframe returns (line 105).
ToSqlCommit ==
    /\ pc = "commit"
    /\ Called("commit")
    /\ \/ /\ conn' = FALSE
          /\ returned' = returned \cup {"load_dataframe"}
          /\ pc' = "done"
          /\ UNCHANGED << table, error >>
       \/ /\ ToSqlRaise("DatabaseError")
          /\ UNCHANGED returned
    /\ UNCHANGED sent
    /\ LoadFrame

\* ------------------------------------------------------------ specifications

\* The job is invoked again after a run that succeeded; the worksheet and
\* the environment are as they were.
Rerun ==
    /\ pc = "done"
    /\ runs < MaxRuns
    /\ runs' = runs + 1
    /\ table0' = table
    /\ pc' = "env"
    /\ cfg' = <<>>
    /\ pg_chunksize' = None
    /\ df' = <<>>
    /\ engine' = <<>>
    /\ sent' = 0
    /\ calls' = NoCalls
    /\ returned' = {}
    /\ UNCHANGED << environ, sheet, table, conn, error >>

Init ==
    /\ environ \in Environments
    /\ sheet \in Sheets
    /\ table \in InitialTables
    /\ table0 = table
    /\ pc = "env"
    /\ cfg = <<>>
    /\ pg_chunksize = None
    /\ df = <<>>
    /\ engine = <<>>
    /\ sent = 0
    /\ conn = FALSE
    /\ calls = NoCalls
    /\ returned = {}
    /\ error = NoError
    /\ runs = 1

Load ==
    \/ LoadDataframe
    \/ ToSqlConnect
    \/ ToSqlDrop
    \/ ToSqlCreate
    \/ ToSqlInsert
    \/ ToSqlCommit

Next ==
    \/ ReadEnv
    \/ ParseChunksize
    \/ JsonLoads
    \/ FromServiceAccountInfo
    \/ Authorize
    \/ OpenByKey
    \/ OpenWorksheet
    \/ GetAllRecords
    \/ GetEngine
    \/ Load
    \/ Rerun

Spec == Init /\ [][Next]_vars

\* load_dataframe on its own: any DataFrame, any positive batch size, an
\* engine already made.
DataFrames == { get_all_records(ws) : ws \in Sheets }

InitLoad ==
    /\ environ \in { e \in Environments : DOMAIN e = EnvKeys /\ \A k \in EnvKeys : e[k] = GoodValue(k) }
    /\ sheet = BlankSheet
    /\ table \in InitialTables
    /\ table0 = table
    /\ pc = "load_dataframe"
    /\ cfg = <<>>
    /\ pg_chunksize \in { <<n>> : n \in 1..MaxChunk }
    /\ df \in DataFrames
    /\ engine = build_pg_url("x", "x", "x", "x", "x")
    /\ sent = 0
    /\ conn = FALSE
    /\ calls = NoCalls
    /\ returned = {}
    /\ error = NoError
    /\ runs = 1

SpecLoad == InitLoad /\ [][Load]_vars

\* ------------------------------------------------------------------ claims

AnyCall(S) == \E s \in S : calls[s] > 0

NetworkSteps == SheetSteps \cup DbSteps

Unset == EnvKeys \ DOMAIN environ

\* The labels of pc inside read_worksheet and inside the load.
ExtractLabels ==
    {"json_loads", "from_service_account_info", "authorize", "open_by_key",
     "worksheet", "get_all_records"}

LoadLabels == {"get_engine", "load_dataframe", "connect", "drop", "create", "insert", "commit"}

\* The DataFrame main() holds has no rows.
NoRows == Len(df) = 0

\* The table holds exactly what it held when the run started.
TableUntouched == table = table0

\* C1: if any of the nine required variables is unset when the run starts,
\* the run never leaves the configuration step, it can only end failed with
\* the RuntimeError of env() naming an unset variable, and no call to the
\* spreadsheet service or the database is made in that run.
C1_UnsetVariableFailsFast ==
    Unset # {} =>
        /\ pc \in {"env", "failed"}
        /\ ~AnyCall(Steps)
        /\ ~conn
        /\ TableUntouched
        /\ pc = "failed" =>
              /\ error.kind = "RuntimeError"
              /\ error.at = "env"
              /\ error.key \in Unset

\* The last variable main() reads is the unset one and the run has failed
\* naming it.
C1_Witness ==
    /\ pc = "failed"
    /\ Unset = {"PG_TABLE"}
    /\ error.key = "PG_TABLE"
    /\ Len(cfg) = 8

\* C2: configuration, then extraction, then load, never overlapping: no
\* library call is made before the configuration is read, nothing of the
\* load (engine creation, connection, drop, create, insert, commit, a change
\* of the table) happens before read_worksheet has returned, and once it has
\* returned the run is never again inside configuration or extraction.
C2_ExtractBeforeLoad ==
    /\ AnyCall(Steps) => "config" \in returned
    /\ pc \in ExtractLabels \cup LoadLabels => Len(cfg) = Len(EnvOrder)
    /\ (AnyCall(DbSteps \cup {"create_engine"}) \/ conn \/ engine # <<>>
           \/ ~TableUntouched \/ pc \in LoadLabels)
          => "read_worksheet" \in returned
    /\ "read_worksheet" \in returned =>
          /\ pc \notin ExtractLabels \cup {"env", "chunksize"}
          /\ calls["get_all_records"] = 1
    /\ pc \in ExtractLabels => ~AnyCall(DbSteps \cup {"create_engine"})

\* A run that went through all three steps and wrote rows.
C2_Witness ==
    /\ pc = "done"
    /\ calls["get_all_records"] = 1
    /\ calls["insert"] > 0
    /\ returned = {"config", "read_worksheet", "get_engine", "load_dataframe"}

C4_ReplaceLoadsExactly ==
    (pc = "done" /\ ~NoRows) =>
        /\ table.exists
        /\ SameRows(table.rows, df)
        /\ SchemaColumns(table.schema) = Range(sheet.header)

\* The table held another row under the same columns, the worksheet holds
\* the same row twice, and the load has succeeded.
C4_Witness ==
    /\ pc = "done"
    /\ runs = 1
    /\ Len(df) = 2
    /\ df[1] = df[2]
    /\ table0.exists
    /\ table0.rows # <<>>
    /\ SchemaColumns(table0.schema) = Columns(df)

\* The position of a pc label in StepOrder, 0 for the configuration step.
StepIndex(label) ==
    LET name == IF label = "get_engine" THEN "create_engine" ELSE label
    IN  IF name \in Steps THEN CHOOSE i \in 1..Len(StepOrder) : StepOrder[i] = name ELSE 0

\* A run that has failed stays failed and touches nothing any more.
FailureIsFinal ==
    pc = "failed" => (pc' = "failed" /\ calls' = calls /\ table' = table /\ runs' = runs)

NothingRetried ==
    /\ \A s \in Steps \ {"insert"} : calls[s] <= 1
    /\ calls["insert"] <= Len(df)

FailureAborts ==
    pc = "failed" =>
        /\ error # NoError
        /\ \A i \in 1..Len(StepOrder) : i > StepIndex(error.at) => calls[StepOrder[i]] = 0
        /\ "load_dataframe" \notin returned
        /\ error.at \in ExtractLabels \cup {"env", "chunksize"} =>
              /\ TableUntouched
              /\ ~AnyCall(DbSteps \cup {"create_engine"})
              /\ engine = <<>>

\* C5: no exception is caught and recovered: no call is made twice in a run,
\* a failed run has made no call after the one that raised and has not
\* completed the load, a failure in configuration or extraction leaves the
\* table untouched, and a failed run stays failed.
C5_ErrorsAbort ==
    /\ [](NothingRetried /\ FailureAborts)
    /\ [][FailureIsFinal]_vars

\* The fetch of the rows has failed while the table held rows.
C5_Witness ==
    /\ pc = "failed"
    /\ error.at = "get_all_records"
    /\ calls["worksheet"] = 1
    /\ table.exists

\* GOOGLE_SA_KEY_JSON is set and is not JSON.
MalformedKey ==
    /\ "GOOGLE_SA_KEY_JSON" \in DOMAIN environ
    /\ json_loads_raises(environ["GOOGLE_SA_KEY_JSON"])

\* C6: when GOOGLE_SA_KEY_JSON is not valid JSON, no authentication request,
\* no spreadsheet call and no database action is made, the run never
\* succeeds, and once json.loads was called the run has failed with its
\* JSONDecodeError.
C6_MalformedKeyBeforeNetwork ==
    MalformedKey =>
        /\ ~AnyCall(NetworkSteps \cup {"from_service_account_info", "create_engine"})
        /\ ~conn
        /\ TableUntouched
        /\ pc # "done"
        /\ calls["json_loads"] > 0 =>
              /\ pc = "failed"
              /\ error.kind = "JSONDecodeError"
              /\ error.at = "json_loads"

\* All nine variables are set, the key is not JSON, and json.loads raised.
C6_Witness ==
    /\ MalformedKey
    /\ Unset = {}
    /\ pc = "failed"
    /\ error.kind = "JSONDecodeError"
    /\ calls["json_loads"] = 1

\* C7: whenever a call to the spreadsheet service or the database has been
\* made, every one of the nine variables is set and not the empty string.
C7_NetworkOnlyWithNonEmptyConfig ==
    AnyCall(NetworkSteps) =>
        \A k \in EnvKeys : k \in DOMAIN environ /\ environ[k] # ""

\* The table a load in one batch leaves.
LoadedInOneBatch(d) == [exists |-> TRUE, schema |-> InferSchema(d), rows |-> d]

\* C8: for every positive batch size a successful load of a non-empty
\* DataFrame leaves the rows and the schema that a load in one batch
\* leaves; the schema is that of the whole DataFrame from the first batch
\* on and is never changed by a batch.
C8_BatchSizeIrrelevant ==
    /\ (pc = "done" /\ ~NoRows) =>
          /\ table.exists = LoadedInOneBatch(df).exists
          /\ table.schema = LoadedInOneBatch(df).schema
          /\ SameRows(table.rows, LoadedInOneBatch(df).rows)
    /\ (pc \in {"insert", "commit"} /\ error = NoError) =>
          /\ table.schema = InferSchema(df)
          /\ table.rows = SubSeq(df, 1, sent)

\* Two batches of one row were sent; the column id holds a number in the
\* first and text in the second.
C8_Witness ==
    /\ pc = "done"
    /\ pg_chunksize = <<1>>
    /\ Len(df) = 2
    /\ calls["insert"] = 2
    /\ df[1].id.kind = "int"
    /\ df[2].id.kind = "str"

\* C9: a second (or later) successful run on the unchanged worksheet leaves
\* the table as the run before it left it.
C9_RerunIdempotent ==
    (runs >= 2 /\ pc = "done") =>
        /\ table.exists = table0.exists
        /\ table.schema = table0.schema
        /\ SameRows(table.rows, table0.rows)

\* The second run has written rows and succeeded.
C9_Witness ==
    /\ runs = 2
    /\ pc = "done"
    /\ calls["insert"] > 0
    /\ Len(df) = 2

\* C10: a connection is taken at most once per run and only for a non-empty
\* DataFrame, it is held only inside to_sql, and none is held when the run
\* has ended, in success or in failure.
C10_ConnectionScoped ==
    /\ calls["connect"] <= 1
    /\ calls["connect"] > 0 => ~NoRows
    /\ conn => (calls["connect"] = 1 /\ pc \in {"drop", "create", "insert", "commit"})
    /\ pc \in {"done", "failed"} => ~conn

\* A batch insert has failed after the connection was taken.
C10_Witness ==
    /\ pc = "failed"
    /\ error.at = "insert"
    /\ calls["connect"] = 1
    /\ ~conn

====
